---- MODULE Spec2Model ----
(***************************************************************************)
(* Model of src/main.py: the Balloon Analogue Risk Task (BART) session.    *)
(*                                                                         *)
(* The state is st.session_state.  Every action is one participant click:  *)
(* the widget callback (or the submitted form) followed by the rerun of    *)
(* the script, i.e. the key initialisation of lines 30-48 and the page     *)
(* dispatch of main().  A button exists only on the page that renders it,  *)
(* so the page guards of the actions are the dispatch of main() and the    *)
(* `disabled=` argument of the COLLECT button.                             *)
(***************************************************************************)
EXTENDS Integers, Sequences, FiniteSets, TLC

\* ---------------------------------------------------------------- constants
POINTS_PER_PUMP == 5

\* Number of balloons of a session.  The source plays 7; the model plays
\* fewer so that every complete session can be enumerated.
TOTAL_TRIALS == 2

Colors == {"Yellow", "Orange", "Blue"}

MAX_PUMPS_MAP == [c \in Colors |->
                    CASE c = "Yellow" -> 8
                      [] c = "Orange" -> 16
                      [] c = "Blue"   -> 64]

DEPARTMENTS == {"Select Department", "Accounting"}

\* ------------------------------------------------------------------- bounds
\* random.random() is modelled as one of the values k / DrawGrid, k in
\* 0 .. DrawGrid-1, of the interval [0, 1).
DrawGrid == 4

\* Number of times a handler is called on a trial that has already ended
\* (specification SpecCore only).
MaxEndedCalls == 1

\* --------------------------------------------------------------- form input
\* Absent session key (participant fields before submission, balloon_size
\* before the first pump).
NONE == "<absent>"

\* The absent game id (a game id is a sequence of characters).
NoGameId == <<NONE>>

NameInputs == {"", "Ann"}

\* A game id is a sequence of characters.
GameIdInputs == { <<>>, <<"B", "1">>, <<" ", "B", " ", "1", " ">>,
                  <<"B", "\t", "1">> }

\* ------------------------------------------------------------------- state
VARIABLES page, trial_data, total_score, current_trial, temp_score, pumps,
          balloon_colors_sequence, max_pumps_this_trial,
          participant_name, department, game_id, balloon_size,
          prob_explosion, error, ended_calls

vars == <<page, trial_data, total_score, current_trial, temp_score, pumps,
          balloon_colors_sequence, max_pumps_this_trial,
          participant_name, department, game_id, balloon_size,
          prob_explosion, error, ended_calls>>

\* ----------------------------------------------------------- pure helpers
\* str.strip(): drop leading and trailing whitespace.
IsSpace(ch) == ch \in {" ", "\t", "\n"}

RECURSIVE LStrip(_)
LStrip(s) == IF s # <<>> /\ IsSpace(Head(s)) THEN LStrip(Tail(s)) ELSE s

RECURSIVE RStrip(_)
RStrip(s) == IF s # <<>> /\ IsSpace(s[Len(s)])
             THEN RStrip(SubSeq(s, 1, Len(s) - 1)) ELSE s

Strip(s) == RStrip(LStrip(s))

\* str.replace(' ', '_'): only the space character is replaced.
ReplaceSpace(s) == [i \in 1 .. Len(s) |-> IF s[i] = " " THEN "_" ELSE s[i]]

\* game_id.strip().replace(' ', '_')
SanitizeGameId(s) == ReplaceSpace(Strip(s))

\* Variant of FormIncomplete: the placeholder department is not tested.
FormIncomplete_NoPlaceholderTest(name, dept, gid) ==
    name = "" \/ gid = <<>>

\* not name or department == 'Select Department' or not game_id
FormIncomplete(name, dept, gid) ==
    name = "" \/ dept = "Select Department" \/ gid = <<>>

\* Variant of ProbExplosion: the denominator of the comment's examples,
\* 1 / (max_pumps - current_pumps).
ProbExplosion_NoPlusOne(max_pumps, current_pumps) ==
    [num |-> 1, den |-> max_pumps - current_pumps]

\* Variant of ProbExplosion: the constant hazard 1 / max_pumps.
ProbExplosion_Constant(max_pumps, current_pumps) ==
    [num |-> 1, den |-> max_pumps]

\* prob_explosion = 1 / (max_pumps - current_pumps + 1), kept as a fraction.
ProbExplosion(max_pumps, current_pumps) ==
    [num |-> 1, den |-> max_pumps - current_pumps + 1]

\* random.random() < prob_explosion, for the draw k / DrawGrid.
DrawBelow(k, prob) == k * prob.den < prob.num * DrawGrid

\* Variant of PumpPage: the ceiling is taken one pump too late.
PumpPage_LateCeiling(current_pumps, max_pumps, k, old_page) ==
    IF current_pumps > max_pumps
    THEN "explosion"
    ELSE IF DrawBelow(k, ProbExplosion(max_pumps + 1, current_pumps))
         THEN "explosion"
         ELSE old_page

\* The page handle_pump leaves, for the draw k / DrawGrid.
PumpPage(current_pumps, max_pumps, k, old_page) ==
    IF current_pumps >= max_pumps
    THEN "explosion"
    ELSE IF DrawBelow(k, ProbExplosion(max_pumps, current_pumps))
         THEN "explosion"
         ELSE old_page

\* Variant of setup_new_trial: the colour of the trial before is looked up.
setup_new_trial_StaleIndex(ct, seq, old_max) ==
    IF ct <= TOTAL_TRIALS
    THEN MAX_PUMPS_MAP[seq[IF ct > 1 THEN ct - 1 ELSE ct]]
    ELSE old_max

\* setup_new_trial(): the value of max_pumps_this_trial it leaves.
setup_new_trial(ct, seq, old_max) ==
    IF ct <= TOTAL_TRIALS THEN MAX_PUMPS_MAP[seq[ct]] ELSE old_max

\* Variant of TrialRecord: money_earned is temp_score whatever the outcome.
TrialRecord_KeepMoney(score) ==
    [participant_name        |-> participant_name,
     department              |-> department,
     game_id                 |-> game_id,
     trial_number            |-> current_trial,
     balloon_color           |-> balloon_colors_sequence[current_trial],
     pumps                   |-> pumps,
     exploded                |-> IF page \in {"explosion", "game_over_explosion"}
                                 THEN 1 ELSE 0,
     money_earned            |-> temp_score,
     total_money_after_trial |-> score]

\* Variant of TrialRecord: a trial that earned nothing counts as exploded.
TrialRecord_ExplodedIfNoMoney(score) ==
    [participant_name        |-> participant_name,
     department              |-> department,
     game_id                 |-> game_id,
     trial_number            |-> current_trial,
     balloon_color           |-> balloon_colors_sequence[current_trial],
     pumps                   |-> pumps,
     exploded                |-> IF page \in {"explosion", "game_over_explosion"}
                                    \/ temp_score = 0
                                 THEN 1 ELSE 0,
     money_earned            |-> IF page \in {"explosion", "game_over_explosion"}
                                 THEN 0 ELSE temp_score,
     total_money_after_trial |-> score]

\* The record next_trial appends, total_score being `score` at the call.
TrialRecord(score) ==
    LET current_color == balloon_colors_sequence[current_trial]
        is_exploded   == IF page = "explosion" THEN 1
                         ELSE IF page = "game_over_explosion" THEN 1
                         ELSE 0
    IN  [participant_name        |-> participant_name,
         department              |-> department,
         game_id                 |-> game_id,
         trial_number            |-> current_trial,
         balloon_color           |-> current_color,
         pumps                   |-> pumps,
         exploded                |-> is_exploded,
         money_earned            |-> IF is_exploded = 0 THEN temp_score ELSE 0,
         total_money_after_trial |-> score]

\* ---------------------------------------------------------------- handlers
\* Variant of next_trial: the session ends one trial early (>= for >).
next_trial_EarlyEnd(score) ==
    /\ trial_data' = Append(trial_data, TrialRecord(score))
    /\ current_trial' = current_trial + 1
    /\ temp_score' = 0
    /\ pumps' = 0
    /\ IF current_trial + 1 >= TOTAL_TRIALS
       THEN /\ page' = "end"
            /\ UNCHANGED max_pumps_this_trial
       ELSE /\ max_pumps_this_trial' =
                 setup_new_trial(current_trial + 1, balloon_colors_sequence,
                                 max_pumps_this_trial)
            /\ page' = "game"

\* Variant of next_trial: the record replaces the last one of the log.
next_trial_Overwrite(score) ==
    /\ trial_data' = IF trial_data = <<>>
                     THEN <<TrialRecord(score)>>
                     ELSE [trial_data EXCEPT ![Len(trial_data)] = TrialRecord(score)]
    /\ current_trial' = current_trial + 1
    /\ temp_score' = 0
    /\ pumps' = 0
    /\ IF current_trial + 1 > TOTAL_TRIALS
       THEN /\ page' = "end"
            /\ UNCHANGED max_pumps_this_trial
       ELSE /\ max_pumps_this_trial' =
                 setup_new_trial(current_trial + 1, balloon_colors_sequence,
                                 max_pumps_this_trial)
            /\ page' = "game"

\* Variant of next_trial: the temporary score is not reset.
next_trial_KeepTemp(score) ==
    /\ trial_data' = Append(trial_data, TrialRecord(score))
    /\ current_trial' = current_trial + 1
    /\ UNCHANGED temp_score
    /\ pumps' = 0
    /\ IF current_trial + 1 > TOTAL_TRIALS
       THEN /\ page' = "end"
            /\ UNCHANGED max_pumps_this_trial
       ELSE /\ max_pumps_this_trial' =
                 setup_new_trial(current_trial + 1, balloon_colors_sequence,
                                 max_pumps_this_trial)
            /\ page' = "game"

\* The exception next_trial raises: line 62 indexes the colour sequence, of
\* length TOTAL_TRIALS, at current_trial - 1.
NextTrialError == IF current_trial > TOTAL_TRIALS THEN "IndexError" ELSE ""

\* next_trial(), called with total_score = score.  When line 62 raises,
\* nothing below it runs.
next_trial(score) ==
    IF current_trial > TOTAL_TRIALS
    THEN UNCHANGED <<trial_data, current_trial, temp_score, pumps, page,
                     max_pumps_this_trial>>
    ELSE /\ trial_data' = Append(trial_data, TrialRecord(score))
         /\ current_trial' = current_trial + 1
         /\ temp_score' = 0
         /\ pumps' = 0
         /\ IF current_trial + 1 > TOTAL_TRIALS
            THEN /\ page' = "end"
                 /\ UNCHANGED max_pumps_this_trial
            ELSE /\ max_pumps_this_trial' =
                      setup_new_trial(current_trial + 1, balloon_colors_sequence,
                                      max_pumps_this_trial)
                 /\ page' = "game"

\* Variant of handle_pump: the ceiling is tested before the increment.
handle_pump_CheckBeforeIncrement(k) ==
    LET max_pumps == IF max_pumps_this_trial = 0
                     THEN setup_new_trial(current_trial, balloon_colors_sequence,
                                          max_pumps_this_trial)
                     ELSE max_pumps_this_trial
    IN  /\ max_pumps_this_trial' = max_pumps
        /\ pumps' = pumps + 1
        /\ temp_score' = temp_score + POINTS_PER_PUMP
        /\ page' = PumpPage(pumps, max_pumps, k, page)
        /\ prob_explosion' = IF pumps >= max_pumps
                             THEN <<>>
                             ELSE <<ProbExplosion(max_pumps, pumps)>>
        /\ balloon_size' = 150 + (pumps + 1) * 5
        /\ UNCHANGED <<trial_data, total_score, current_trial>>

\* handle_pump(), the random draw being k / DrawGrid.  prob_explosion is the
\* handler's local of that name: assigned only on the branch that draws.
handle_pump(k) ==
    LET max_pumps == IF max_pumps_this_trial = 0
                     THEN setup_new_trial(current_trial, balloon_colors_sequence,
                                          max_pumps_this_trial)
                     ELSE max_pumps_this_trial
        current_pumps == pumps + 1
    IN  /\ max_pumps_this_trial' = max_pumps
        /\ pumps' = current_pumps
        /\ temp_score' = temp_score + POINTS_PER_PUMP
        /\ page' = PumpPage(current_pumps, max_pumps, k, page)
        /\ prob_explosion' = IF current_pumps >= max_pumps
                             THEN <<>>
                             ELSE <<ProbExplosion(max_pumps, current_pumps)>>
        /\ balloon_size' = 150 + current_pumps * 5
        /\ UNCHANGED <<trial_data, total_score, current_trial>>

\* Variant of handle_collect: the temporary score is never banked.
handle_collect_NoAdd ==
    /\ total_score' = total_score
    /\ next_trial(total_score)
    /\ UNCHANGED balloon_size

\* Variant of handle_collect: the record is taken before the score is banked.
handle_collect_RecordBeforeAdd ==
    /\ total_score' = total_score + temp_score
    /\ next_trial(total_score)
    /\ UNCHANGED balloon_size

\* handle_collect()
handle_collect ==
    /\ total_score' = total_score + temp_score
    /\ next_trial(total_score + temp_score)
    /\ UNCHANGED balloon_size

\* ------------------------------------------------------------------ actions
\* Lines 30-48: the keys of a fresh session.  balloon_size = 0 stands for
\* the key being absent, prob_explosion = <<>> for no probability computed.
Init ==
    /\ page = "start"
    /\ trial_data = <<>>
    /\ total_score = 0
    /\ current_trial = 1
    /\ temp_score = 0
    /\ pumps = 0
    /\ balloon_colors_sequence \in [1 .. TOTAL_TRIALS -> Colors]
    /\ max_pumps_this_trial = 0
    /\ participant_name = NONE
    /\ department = NONE
    /\ game_id = NoGameId
    /\ balloon_size = 0
    /\ prob_explosion = <<>>
    /\ error = ""
    /\ ended_calls = 0

\* start_page(): the form is submitted with missing or placeholder fields.
SubmitInvalid ==
    /\ page = "start"
    /\ \E name \in NameInputs, dept \in DEPARTMENTS, gid \in GameIdInputs :
          /\ FormIncomplete(name, dept, gid)
          /\ error' = "Please fill out all fields completely."
    /\ UNCHANGED <<page, trial_data, total_score, current_trial, temp_score,
                   pumps, balloon_colors_sequence, max_pumps_this_trial,
                   participant_name, department, game_id, balloon_size,
                   prob_explosion, ended_calls>>

\* start_page(): the form is submitted with all fields filled.
SubmitValid ==
    /\ page = "start"
    /\ \E name \in NameInputs, dept \in DEPARTMENTS, gid \in GameIdInputs :
          /\ ~FormIncomplete(name, dept, gid)
          /\ participant_name' = name
          /\ department' = dept
          /\ game_id' = SanitizeGameId(gid)
    /\ max_pumps_this_trial' =
          setup_new_trial(current_trial, balloon_colors_sequence,
                          max_pumps_this_trial)
    /\ page' = "game"
    /\ error' = ""
    /\ UNCHANGED <<trial_data, total_score, current_trial, temp_score, pumps,
                   balloon_colors_sequence, balloon_size, prob_explosion,
                   ended_calls>>

\* Variant of Pump: the PUMP button is also shown on the end page.
Pump_OnEndPage ==
    /\ page \in {"game", "end"}
    /\ \E k \in 0 .. DrawGrid - 1 : handle_pump(k)
    /\ error' = ""
    /\ UNCHANGED <<balloon_colors_sequence, participant_name, department,
                   game_id, ended_calls>>

\* game_page(): the PUMP button.
Pump ==
    /\ page = "game"
    /\ \E k \in 0 .. DrawGrid - 1 : handle_pump(k)
    /\ error' = ""
    /\ UNCHANGED <<balloon_colors_sequence, participant_name, department,
                   game_id, ended_calls>>

\* game_page(): the COLLECT button, disabled while pumps == 0.
Collect ==
    /\ page = "game"
    /\ pumps # 0
    /\ handle_collect
    /\ prob_explosion' = <<>>
    /\ error' = NextTrialError
    /\ UNCHANGED <<balloon_colors_sequence, participant_name, department,
                   game_id, ended_calls>>

\* Variant of Continue: main() shows the explosion page for
\* 'game_over_explosion' only.
Continue_OnlyGameOverPage ==
    /\ page = "game_over_explosion"
    /\ current_trial <= TOTAL_TRIALS
    /\ next_trial(total_score)
    /\ prob_explosion' = <<>>
    /\ error' = NextTrialError
    /\ UNCHANGED <<total_score, balloon_colors_sequence, participant_name,
                   department, game_id, balloon_size, ended_calls>>

\* explosion_page(): the "Continue to Next Trial" button.  main() shows this
\* page for 'explosion' and for 'game_over_explosion'.  The page looks up
\* the colour of the current trial (line 291) before it creates the button.
Continue ==
    /\ page \in {"explosion", "game_over_explosion"}
    /\ current_trial <= TOTAL_TRIALS
    /\ next_trial(total_score)
    /\ prob_explosion' = <<>>
    /\ error' = NextTrialError
    /\ UNCHANGED <<total_score, balloon_colors_sequence, participant_name,
                   department, game_id, balloon_size, ended_calls>>

\* Variant of Reset: the score and the log are not among the deleted keys.
Reset_KeepsLog ==
    /\ page = "end"
    /\ page' = "start"
    /\ UNCHANGED <<trial_data, total_score>>
    /\ current_trial' = 1
    /\ temp_score' = 0
    /\ pumps' = 0
    /\ balloon_colors_sequence' \in [1 .. TOTAL_TRIALS -> Colors]
    /\ max_pumps_this_trial' = 0
    /\ participant_name' = NONE
    /\ department' = NONE
    /\ game_id' = NoGameId
    /\ balloon_size' = 0
    /\ prob_explosion' = <<>>
    /\ error' = ""
    /\ ended_calls' = 0

\* end_page(): reset_game() deletes every key, and the rerun initialises the
\* session again (lines 30-48), drawing a new colour sequence.
Reset ==
    /\ page = "end"
    /\ page' = "start"
    /\ trial_data' = <<>>
    /\ total_score' = 0
    /\ current_trial' = 1
    /\ temp_score' = 0
    /\ pumps' = 0
    /\ balloon_colors_sequence' \in [1 .. TOTAL_TRIALS -> Colors]
    /\ max_pumps_this_trial' = 0
    /\ participant_name' = NONE
    /\ department' = NONE
    /\ game_id' = NoGameId
    /\ balloon_size' = 0
    /\ prob_explosion' = <<>>
    /\ error' = ""
    /\ ended_calls' = 0

Next ==
    \/ SubmitInvalid
    \/ SubmitValid
    \/ Pump
    \/ Collect
    \/ Continue
    \/ Reset

Spec == Init /\ [][Next]_vars

\* ------------------------------------------- the handlers called directly
\* handle_pump() called although the trial has ended: the balloon has
\* exploded or the session is complete.  The handler tests nothing.
PumpEnded ==
    /\ page \in {"explosion", "game_over_explosion", "end"}
    /\ ended_calls < MaxEndedCalls
    /\ ended_calls' = ended_calls + 1
    /\ \E k \in 0 .. DrawGrid - 1 : handle_pump(k)
    /\ error' = ""
    /\ UNCHANGED <<balloon_colors_sequence, participant_name, department,
                   game_id>>

\* handle_collect() called although the trial has ended.
CollectEnded ==
    /\ page \in {"explosion", "game_over_explosion", "end"}
    /\ ended_calls < MaxEndedCalls
    /\ ended_calls' = ended_calls + 1
    /\ handle_collect
    /\ prob_explosion' = <<>>
    /\ error' = NextTrialError
    /\ UNCHANGED <<balloon_colors_sequence, participant_name, department,
                   game_id>>

\* handle_collect() called with no pump made, which the disabled COLLECT
\* button alone prevents.
CollectAtZero ==
    /\ page = "game"
    /\ pumps = 0
    /\ handle_collect
    /\ prob_explosion' = <<>>
    /\ error' = NextTrialError
    /\ UNCHANGED <<balloon_colors_sequence, participant_name, department,
                   game_id, ended_calls>>

NextCore ==
    \/ Next
    \/ PumpEnded
    \/ CollectEnded
    \/ CollectAtZero

SpecCore == Init /\ [][NextCore]_vars

\* The participant keeps taking an available action of a running session.
LiveSpec == Spec /\ WF_vars(Pump \/ Collect \/ Continue)

\* ------------------------------------------------ vocabulary of the claims
\* The pages on which a trial is in progress or has just exploded.
TrialPages == {"game", "explosion", "game_over_explosion"}

LastRecord(log) == log[Len(log)]

\* money_earned summed over the first k records of the log.
RECURSIVE SumEarned(_, _)
SumEarned(log, k) ==
    IF k = 0 THEN 0 ELSE SumEarned(log, k - 1) + log[k].money_earned

\* total_score when the current trial began: what the record before says.
ScoreAtTrialStart ==
    IF trial_data = <<>> THEN 0
    ELSE LastRecord(trial_data).total_money_after_trial

\* a < b for fractions with positive denominators.
FracLess(a, b) == a.num * b.den < b.num * a.den

\* ------------------------------------------------------------------- claims

\* C1: the pump count of the current trial never exceeds MAX_PUMPS_MAP of the
\* trial's balloon colour, and no record of trial_data has more pumps than
\* MAX_PUMPS_MAP of its balloon_color.
C1_PumpsWithinMax ==
    /\ current_trial <= TOTAL_TRIALS
          => pumps <= MAX_PUMPS_MAP[balloon_colors_sequence[current_trial]]
    /\ \A i \in 1 .. Len(trial_data) :
          trial_data[i].pumps <= MAX_PUMPS_MAP[trial_data[i].balloon_color]

\* C1 witness: a balloon pumped to its ceiling is on the explosion page
\* while the log already holds a record that reached its own ceiling.
C1_Witness ==
    /\ page = "explosion"
    /\ current_trial <= TOTAL_TRIALS
    /\ pumps = MAX_PUMPS_MAP[balloon_colors_sequence[current_trial]]
    /\ \E i \in 1 .. Len(trial_data) :
          trial_data[i].pumps = MAX_PUMPS_MAP[trial_data[i].balloon_color]

\* C2: a trial whose pump count equals max_pumps of its tier is exploded,
\* whatever the draw of the pump that got it there, and a record with
\* pumps == max_pumps has exploded == 1 and money_earned == 0.
C2_CeilingAlwaysExplodes ==
    /\ (page \in TrialPages /\ pumps >= 1
          /\ pumps = MAX_PUMPS_MAP[balloon_colors_sequence[current_trial]])
          => page = "explosion"
    /\ \A i \in 1 .. Len(trial_data) :
          trial_data[i].pumps = MAX_PUMPS_MAP[trial_data[i].balloon_color]
             => /\ trial_data[i].exploded = 1
                /\ trial_data[i].money_earned = 0

\* C2 witness: a Yellow balloon was pumped 8 times and recorded, and the
\* next balloon has been pumped to its ceiling too.
C2_Witness ==
    /\ \E i \in 1 .. Len(trial_data) :
          /\ trial_data[i].balloon_color = "Yellow"
          /\ trial_data[i].pumps = 8
          /\ trial_data[i].exploded = 1
    /\ page = "explosion"
    /\ pumps = max_pumps_this_trial

\* C3: the continue button after an explosion appends a record with
\* exploded == 1 and money_earned == 0, and total_score is then what it was
\* when the trial began.
C3_ExplodedEarnsNothing ==
    [][Continue =>
         /\ LastRecord(trial_data').exploded = 1
         /\ LastRecord(trial_data').money_earned = 0
         /\ LastRecord(trial_data').pumps = pumps
         /\ total_score' = total_score
         /\ total_score' = ScoreAtTrialStart]_vars

\* C3 witness: an explosion by the draw (below the ceiling, temporary score
\* lost) is in the log after an earlier collected trial.
C3_Witness ==
    /\ Len(trial_data) = 2
    /\ trial_data[1].exploded = 0
    /\ trial_data[2].exploded = 1
    /\ trial_data[2].pumps = 3
    /\ total_score = trial_data[1].money_earned
    /\ total_score > 0

\* C4: collect with p pumps and total_score T appends the record
\* {pumps: p, exploded: 0, money_earned: p * POINTS_PER_PUMP,
\* total_money_after_trial: T + p * POINTS_PER_PUMP} and leaves total_score
\* at T + p * POINTS_PER_PUMP.
C4_CollectBanks ==
    [][Collect =>
         /\ LastRecord(trial_data').pumps = pumps
         /\ LastRecord(trial_data').exploded = 0
         /\ LastRecord(trial_data').money_earned = pumps * POINTS_PER_PUMP
         /\ LastRecord(trial_data').total_money_after_trial
               = total_score + pumps * POINTS_PER_PUMP
         /\ total_score' = total_score + pumps * POINTS_PER_PUMP]_vars

\* C4 witness: a Blue balloon collected after one pump, on top of an
\* earlier total.
C4_Witness ==
    /\ Len(trial_data) = 2
    /\ trial_data[1].money_earned > 0
    /\ trial_data[2].balloon_color = "Blue"
    /\ trial_data[2].pumps = 1
    /\ trial_data[2].exploded = 0
    /\ trial_data[2].money_earned = 5
    /\ trial_data[2].total_money_after_trial
          = trial_data[1].total_money_after_trial + 5

\* C5: the k-th record's total_money_after_trial is the sum of money_earned
\* over records 1..k, and total_score is the sum over the whole log.
C5_RunningTotal ==
    /\ \A k \in 1 .. Len(trial_data) :
          trial_data[k].total_money_after_trial = SumEarned(trial_data, k)
    /\ total_score = SumEarned(trial_data, Len(trial_data))

\* C5 witness: every trial of a session collected after 3 pumps.
C5_Witness ==
    /\ page = "end"
    /\ \A k \in 1 .. Len(trial_data) :
          trial_data[k].exploded = 0 /\ trial_data[k].pumps = 3
    /\ total_score = TOTAL_TRIALS * 3 * POINTS_PER_PUMP

\* C6: collect and continue lengthen trial_data by exactly one record whose
\* trial_number is the new length and keep the records before it; pump
\* leaves the log alone; only reset shortens it.
C6_LogAppendOnly ==
    [][/\ (Collect \/ Continue) =>
            /\ Len(trial_data') = Len(trial_data) + 1
            /\ SubSeq(trial_data', 1, Len(trial_data)) = trial_data
            /\ LastRecord(trial_data').trial_number = Len(trial_data')
       /\ Pump => trial_data' = trial_data
       /\ ~(Collect \/ Continue) =>
            \/ trial_data' = trial_data
            \/ Reset /\ trial_data' = <<>>]_vars

\* C6 witness: a full log holding a collected and an exploded trial.
C6_Witness ==
    /\ Len(trial_data) = TOTAL_TRIALS
    /\ \E i, j \in 1 .. Len(trial_data) :
          trial_data[i].exploded = 0 /\ trial_data[j].exploded = 1

\* C7: page == 'end' iff the log holds TOTAL_TRIALS records, and it never
\* holds more.
C7_CompleteIffFullLog ==
    /\ (page = "end") <=> (Len(trial_data) = TOTAL_TRIALS)
    /\ Len(trial_data) <= TOTAL_TRIALS

\* C7 witness: the end page.
C7_Witness ==
    /\ page = "end"
    /\ Len(trial_data) = TOTAL_TRIALS

\* C8: submit, pump, collect and continue leave the colour sequence alone;
\* during trial k max_pumps_this_trial is MAX_PUMPS_MAP[sequence[k-1]]
\* (1-based here: sequence[k]) and record k has that balloon_color.
C8_SequenceFixed ==
    /\ [](/\ page \in TrialPages =>
               max_pumps_this_trial
                  = MAX_PUMPS_MAP[balloon_colors_sequence[current_trial]]
          /\ \A k \in 1 .. Len(trial_data) :
               trial_data[k].balloon_color = balloon_colors_sequence[k])
    /\ [][(SubmitInvalid \/ SubmitValid \/ Pump \/ Collect \/ Continue) =>
             balloon_colors_sequence' = balloon_colors_sequence]_vars

\* C8 witness: the second trial of a session whose two first colours differ,
\* after a pump.
C8_Witness ==
    /\ page = "game"
    /\ current_trial = 2
    /\ pumps = 1
    /\ balloon_colors_sequence[1] # balloon_colors_sequence[2]
    /\ Len(trial_data) = 1

C10_ProbabilityIncreasing ==
    /\ [](page \in TrialPages /\ 1 <= pumps /\ pumps < max_pumps_this_trial =>
            /\ Len(prob_explosion) = 1
            /\ 0 < prob_explosion[1].num
            /\ 0 < prob_explosion[1].den
            /\ prob_explosion[1].num <= prob_explosion[1].den)
    /\ [][(Pump /\ 1 <= pumps /\ pumps + 1 < max_pumps_this_trial) =>
             FracLess(prob_explosion[1], prob_explosion'[1])]_vars

\* C10 witness: a Blue balloon that survived 62 pumps, the last pump count
\* whose successor is still below the ceiling.
C10_Witness ==
    /\ page = "game"
    /\ max_pumps_this_trial = 64
    /\ pumps = 62

\* A character sequence holds no whitespace character.
NoWhitespace(id) == \A i \in 1 .. Len(id) : ~IsSpace(id[i])

\* (max_pumps - 1) * POINTS_PER_PUMP summed over the first k records.
RECURSIVE SumBelowCeiling(_, _)
SumBelowCeiling(log, k) ==
    IF k = 0 THEN 0
    ELSE SumBelowCeiling(log, k - 1)
            + (MAX_PUMPS_MAP[log[k].balloon_color] - 1) * POINTS_PER_PUMP

\* C11 as claimed: handle_pump or handle_collect called on a trial that has
\* ended (exploded balloon, or complete session) signals an error and leaves
\* pumps, temp_score, total_score and trial_data unchanged.
C11_EndedCallsRejected ==
    [][(PumpEnded \/ CollectEnded) =>
         /\ error' # ""
         /\ UNCHANGED <<pumps, temp_score, total_score, trial_data>>]_vars

\* C12: a submission with an empty name, the placeholder department or an
\* empty game id keeps the page 'start' and changes nothing of the session;
\* hence on the start page no participant field is stored, and a stored
\* name or department is never the empty name or the placeholder.
C12_InvalidSubmitNoTransition ==
    /\ [](/\ page = "start" =>
               /\ participant_name = NONE
               /\ department = NONE
               /\ game_id = NoGameId
               /\ current_trial = 1
               /\ total_score = 0
               /\ trial_data = <<>>
               /\ max_pumps_this_trial = 0
          /\ participant_name # ""
          /\ department # "Select Department")
    /\ [][SubmitInvalid =>
            /\ page' = "start"
            /\ error' # ""
            /\ UNCHANGED <<participant_name, department, game_id,
                           current_trial, total_score, trial_data,
                           max_pumps_this_trial, temp_score, pumps,
                           balloon_colors_sequence>>]_vars

\* C12 witness: the start page after a rejected submission.
C12_Witness ==
    /\ page = "start"
    /\ error = "Please fill out all fields completely."
    /\ participant_name = NONE

\* C13: every step taken from the end page is the reset, which leads to the
\* start page; until then page, total_score, trial_data and current_trial
\* stay as they are.
C13_CompleteIsTerminal ==
    [][page = "end" =>
         \/ Reset /\ page' = "start"
         \/ /\ page' = "end"
            /\ UNCHANGED <<total_score, trial_data, current_trial>>]_vars

\* C13 witness: a complete session with a banked score.
C13_Witness ==
    /\ page = "end"
    /\ total_score > 0
    /\ Len(trial_data) = TOTAL_TRIALS

\* C14: reset leaves page 'start', an empty log, total_score, temp_score,
\* pumps and max_pumps_this_trial 0, current_trial 1, no participant field,
\* no balloon_size and a colour sequence of length TOTAL_TRIALS.
C14_ResetDiscardsSession ==
    [][Reset =>
         /\ page' = "start"
         /\ trial_data' = <<>>
         /\ total_score' = 0
         /\ temp_score' = 0
         /\ pumps' = 0
         /\ max_pumps_this_trial' = 0
         /\ current_trial' = 1
         /\ participant_name' = NONE
         /\ department' = NONE
         /\ game_id' = NoGameId
         /\ balloon_size' = 0
         /\ balloon_colors_sequence' \in [1 .. TOTAL_TRIALS -> Colors]]_vars

\* C14 witness: a complete session with a score, a full log and an identity,
\* on the page that offers the reset.
C14_Witness ==
    /\ page = "end"
    /\ total_score > 0
    /\ Len(trial_data) = TOTAL_TRIALS
    /\ participant_name = "Ann"
    /\ balloon_size > 0

\* C15 as claimed: the stored game_id, and the game_id of every record,
\* holds no whitespace character.
C15_GameIdNoWhitespace ==
    /\ game_id # NoGameId => NoWhitespace(game_id)
    /\ \A i \in 1 .. Len(trial_data) : NoWhitespace(trial_data[i].game_id)

\* C16: handle_collect called at zero pumps appends a record with pumps 0,
\* exploded 0 and money_earned 0 and leaves total_score as it was.
C16_ZeroPumpCollect ==
    [][CollectAtZero =>
         /\ Len(trial_data') = Len(trial_data) + 1
         /\ LastRecord(trial_data').pumps = 0
         /\ LastRecord(trial_data').exploded = 0
         /\ LastRecord(trial_data').money_earned = 0
         /\ LastRecord(trial_data').total_money_after_trial = total_score
         /\ total_score' = total_score
         /\ error' = ""]_vars

\* C16 witness: a session complete with every trial collected at zero pumps.
C16_Witness ==
    /\ page = "end"
    /\ total_score = 0
    /\ Len(trial_data) = TOTAL_TRIALS
    /\ \A i \in 1 .. Len(trial_data) :
          /\ trial_data[i].pumps = 0
          /\ trial_data[i].exploded = 0
          /\ trial_data[i].money_earned = 0

\* C17: temp_score == pumps * POINTS_PER_PUMP always, and both are 0 after
\* the identity submission and after every trial completion.
C17_TempScoreFollowsPumps ==
    /\ [](temp_score = pumps * POINTS_PER_PUMP)
    /\ [][(SubmitValid \/ Collect \/ Continue) =>
            pumps' = 0 /\ temp_score' = 0]_vars

\* C17 witness: the second trial, begun at zero after a collected trial of
\* three pumps, now at two pumps.
C17_Witness ==
    /\ page = "game"
    /\ current_trial = 2
    /\ trial_data[1].pumps = 3
    /\ trial_data[1].exploded = 0
    /\ pumps = 2
    /\ temp_score = 10

\* C18: if the participant keeps taking an available action, a session on a
\* trial page reaches the end page with exactly TOTAL_TRIALS records, and no
\* trial is pumped more often than max_pumps of its tier.
C18_SessionCompletes ==
    /\ [](page \in TrialPages => pumps <= max_pumps_this_trial)
    /\ (page \in TrialPages)
          ~> (page = "end" /\ Len(trial_data) = TOTAL_TRIALS)

\* C18 witness: a session completed by explosions at the ceiling only.
C18_Witness ==
    /\ page = "end"
    /\ Len(trial_data) = TOTAL_TRIALS
    /\ \A i \in 1 .. Len(trial_data) :
          trial_data[i].pumps = MAX_PUMPS_MAP[trial_data[i].balloon_color]

\* C19: current_trial == len(trial_data) + 1; on the game and explosion
\* pages 1 <= current_trial <= TOTAL_TRIALS; current_trial is
\* TOTAL_TRIALS + 1 exactly on the end page.
C19_CurrentTrialInRange ==
    /\ current_trial = Len(trial_data) + 1
    /\ page \in TrialPages => (1 <= current_trial /\ current_trial <= TOTAL_TRIALS)
    /\ (current_trial = TOTAL_TRIALS + 1) <=> (page = "end")

\* C19 witness: the explosion page of the last trial, which looks up the
\* last colour of the sequence.
C19_Witness ==
    /\ page = "explosion"
    /\ current_trial = TOTAL_TRIALS
    /\ Len(trial_data) = TOTAL_TRIALS - 1

\* C20: a record with exploded == 0 has pumps < max_pumps of its colour,
\* every record has money_earned <= (max_pumps - 1) * POINTS_PER_PUMP, and
\* total_score is at most the sum of that bound over the recorded trials.
C20_CollectedBelowCeiling ==
    /\ \A i \in 1 .. Len(trial_data) :
          /\ trial_data[i].exploded = 0
                => trial_data[i].pumps < MAX_PUMPS_MAP[trial_data[i].balloon_color]
          /\ trial_data[i].money_earned
                <= (MAX_PUMPS_MAP[trial_data[i].balloon_color] - 1) * POINTS_PER_PUMP
    /\ total_score <= SumBelowCeiling(trial_data, Len(trial_data))

\* C20 witness: every trial of the session collected one pump below the
\* ceiling, so that total_score meets the bound.
C20_Witness ==
    /\ page = "end"
    /\ \A i \in 1 .. Len(trial_data) :
          /\ trial_data[i].exploded = 0
          /\ trial_data[i].pumps = MAX_PUMPS_MAP[trial_data[i].balloon_color] - 1
    /\ total_score = SumBelowCeiling(trial_data, Len(trial_data))

====
